---- MODULE Spec2Model ----
(***************************************************************************)
(* Model of the data retrieval path of the data catalog library:          *)
(* Location.get_parameter (assets/location.py) and Asset.get_data with     *)
(* its two strategies and the credential resolution (assets/asset.py).     *)
(* The object store, the version service and the resource behind a url     *)
(* are the environment; every network call of get_data on the container    *)
(* path is one step of the model.                                          *)
(***************************************************************************)
EXTENDS Integers, Sequences, FiniteSets, TLC

\* ------------------------------------------------------------------ bounds
MaxTime     == 2    \* instants are the hours 0..MaxTime of one day
MaxOffset   == 1    \* the process's zone is UTC-MaxOffset..UTC+MaxOffset
MaxStamp    == 1    \* last_modified stamps and watermarks are 0..MaxStamp
MaxBlobs    == 2    \* objects listed in the container
MaxContents == 2    \* entries of a version's contents
MaxParams   == 3    \* length of a free-form parameter sequence

\* ------------------------------------------------------------------ values
\* Python's None among strings: no parameter value of the model is this one.
None == "None"

Times   == 0..MaxTime
Offsets == (0 - MaxOffset)..MaxOffset
Stamps  == 0..MaxStamp

BlobNames    == {"a", "b"}
VersionNames == {"v1", "v2"}
Formats      == {"csv", "json", "xml"}

\* A timestamp string 'YYYY-MM-DDTHH:MM:SSZ' denoting hour t (UTC) of the day.
TimeString(t) == "2020-01-01T0" \o ToString(t) \o ":00:00Z"
Malformed     == "tomorrow"

\* The body of an object or of a url resource: the rows it holds when it
\* parses in the asset's format.
Bodies == {[well_formed |-> FALSE, rows |-> <<>>],
           [well_formed |-> TRUE,  rows |-> <<1>>],
           [well_formed |-> TRUE,  rows |-> <<2, 3>>]}

\* Sequences over S of length at most n.
SeqUpTo(S, n) == UNION {[1..k -> S] : k \in 0..n}

RECURSIVE Flatten(_)
Flatten(frames) ==
    IF frames = <<>> THEN <<>> ELSE Head(frames) \o Flatten(Tail(frames))

\* ------------------------------------------------------------------ outcomes
NoResult == [kind |-> "none", error |-> "", message |-> "", rows |-> <<>>]
Raise(error, message) ==
    [kind |-> "error", error |-> error, message |-> message, rows |-> <<>>]
Table(rows) == [kind |-> "table", error |-> "", message |-> "", rows |-> rows]

Event(op, arg) == [op |-> op, arg |-> arg]

\* ------------------------------------------------------------------ Location
Parameter(key, value) == [key |-> key, value |-> value]

get_parameter_last(parameters, key) ==
    LET values == SelectSeq(parameters, LAMBDA parameter : parameter.key = key)
    IN  IF Len(values) > 0 THEN values[Len(values)].value ELSE None

get_parameter(parameters, key) ==
    LET values == SelectSeq(parameters, LAMBDA parameter : parameter.key = key)
    IN  IF Len(values) > 0 THEN values[1].value ELSE None

Location(type, parameters) == [type |-> type, parameters |-> parameters]

\* The parameter sequence of a location that has, in this order, those of the
\* given values that are not None.
Given(key, value) == IF value = None THEN <<>> ELSE <<Parameter(key, value)>>

ContainerParameters(account_url, container_name, sas_token, expiry_time, account_key) ==
    Given("accountUrl", account_url) \o Given("containerName", container_name)
        \o Given("sasToken", sas_token) \o Given("expiryTime", expiry_time)
        \o Given("accountKey", account_key)

\* ------------------------------------------------------------------ state
VARIABLES
    asset,          \* [location, format]: location is <<>> (None) or <<Location>>
    now,            \* the current instant (UTC) when a credential is resolved
    utc_offset,     \* the zone of the process: local time is UTC + utc_offset
    blobs,          \* the container: the listing, a sequence of objects
    versions,       \* the version service: version name -> contents
    web,            \* the body served at the location's url
    pc,             \* where get_data is
    version_name,   \* the argument of the running get_data
    credential,     \* the credential _get_container resolved
    container,      \* the ContainerClient, a sequence of zero or one client
    version,        \* the contents of the fetched version
    blob_list,      \* names of the objects to read
    data_frames,    \* the tables parsed so far
    downloaded,     \* the last_modified of each object as it was downloaded
    result,         \* the outcome of get_data
    events,         \* what the running get_data has done, in order
    lookup,         \* the last Location.get_parameter call made directly
    earlier         \* the asset's previous get_data on a url: argument and outcome

env   == <<asset, now, utc_offset, blobs, versions, web>>
frame == <<pc, version_name, credential, container, version, blob_list,
           data_frames, downloaded, result, events>>
vars  == <<env, frame, lookup, earlier>>

\* ------------------------------------------------------------------ environment
Blob(name, last_modified, body) ==
    [name |-> name, last_modified |-> last_modified, body |-> body]

Content(name, last_modified) == [name |-> name, last_modified |-> last_modified]

DistinctNames(listing) ==
    \A i, j \in 1..Len(listing) : listing[i].name = listing[j].name => i = j

\* Every listing: objects of distinct names, in the order the store lists them.
Listings ==
    {l \in SeqUpTo([name : BlobNames, last_modified : Stamps, body : Bodies], MaxBlobs) :
        DistinctNames(l)}

Manifests == SeqUpTo([name : BlobNames, last_modified : Stamps], MaxContents)

OneBlob     == <<Blob("a", 0, [well_formed |-> TRUE, rows |-> <<1>>])>>
OneManifest == <<Content("a", 0)>>
NoBody      == [well_formed |-> FALSE, rows |-> <<>>]

KeyLocation == Location("azureblob", ContainerParameters("U", "C", None, None, "K"))

\* The assets whose container parameters vary: every combination of absent,
\* empty and present values.
CredentialAssets ==
    {[location |-> <<Location("azureblob", ContainerParameters(u, c, s, e, k))>>,
      format |-> f] :
        f \in {"csv", "xml"},
        u \in {None, "", "U"}, c \in {None, "", "C"}, s \in {None, "", "T"},
        e \in {None, Malformed} \cup {TimeString(t) : t \in Times},
        k \in {None, "", "K"}}

ContainerAssets == {[location |-> <<KeyLocation>>, format |-> f] : f \in Formats}

OtherAssets ==
    {[location |-> l, format |-> f] :
        l \in {<<>>,
               <<Location("url", <<>>)>>,
               <<Location("url", <<Parameter("url", "http://x/data")>>)>>,
               <<Location("ftp", <<Parameter("url", "http://x/data")>>)>>,
               <<Location(None, ContainerParameters("U", "C", None, None, "K"))>>},
        f \in Formats}

IdleFrame ==
    /\ pc = "idle"
    /\ version_name = None
    /\ credential = None
    /\ container = <<>>
    /\ version = <<>>
    /\ blob_list = <<>>
    /\ data_frames = <<>>
    /\ downloaded = <<>>
    /\ result = NoResult
    /\ events = <<>>

NoLookup  == [key |-> None, value |-> None]
NoEarlier == [called |-> FALSE, version_name |-> None, result |-> NoResult]

Init ==
    /\ \/ /\ asset \in CredentialAssets
          /\ now \in Times
          /\ utc_offset \in Offsets
          /\ blobs = OneBlob
          /\ versions = [v \in {"v1"} |-> OneManifest]
          /\ web = NoBody
       \/ /\ asset \in ContainerAssets
          /\ now = 0
          /\ utc_offset = 0
          /\ blobs \in Listings
          /\ versions \in [{"v1"} -> Manifests]
          /\ web = NoBody
       \/ /\ asset \in OtherAssets
          /\ now = 0
          /\ utc_offset = 0
          /\ blobs = OneBlob
          /\ versions = [v \in {"v1"} |-> OneManifest]
          /\ web \in Bodies
    /\ IdleFrame
    /\ lookup = NoLookup
    /\ earlier = NoEarlier

\* ------------------------------------------------------------------ library calls
\* datetime.strptime(text, '%Y-%m-%dT%H:%M:%SZ'): the naive datetime whose
\* wall-clock fields are those written in the text; the Z is a literal.
is_timestamp(text) == \E t \in Times : TimeString(t) = text
strptime(text)     == CHOOSE t \in Times : TimeString(t) = text

\* datetime.now(): the naive datetime of the process's local wall clock.
datetime_now == now + utc_offset

\* pandas.read_csv raises ParserError on a body that does not parse, which
\* the callers turn into ValueError(message).
read_csv(body, message) ==
    IF body.well_formed THEN Table(body.rows) ELSE Raise("ValueError", message)

\* pandas.read_json raises its own ValueError, which no caller catches.
read_json(body) ==
    IF body.well_formed THEN Table(body.rows)
    ELSE Raise("ValueError", "Expected object or value")

\* pandas.concat(data_frames, ignore_index=True)
concat(frames) ==
    IF frames = <<>> THEN Raise("ValueError", "No objects to concatenate")
    ELSE Table(Flatten(frames))

\* ------------------------------------------------------------------ Asset
\* The branch get_data takes.
strategy_any(location) ==
    IF location = <<>> THEN "missing"
    ELSE IF location[1].type = "url" THEN "url"
    ELSE "azureblob"

strategy(location) ==
    IF location = <<>> THEN "missing"
    ELSE IF location[1].type = "url" THEN "url"
    ELSE IF location[1].type = "azureblob" THEN "azureblob"
    ELSE "unsupported"

is_supported_any(format) == TRUE

is_supported(format) == format \in {"csv", "json"}

parse(format, body, message) ==
    IF format = "csv" THEN read_csv(body, message) ELSE read_json(body)

\* _get_data_from_url: the outcome and what was done to get it.
_get_data_from_url_versioned(location, format, body) ==
    LET url    == get_parameter(location.parameters, "url")
        looked == <<Event("get_parameter", "url")>>
    IN  IF url = None
        THEN [result |-> Raise("ValueError", "Location has no url parameter"),
              events |-> looked]
        ELSE IF version_name' # None
        THEN [result |-> Raise("NotImplementedError", ""),
              events |-> looked \o <<Event("get_version", version_name')>>]
        ELSE IF ~is_supported(format)
        THEN [result |-> Raise("NotImplementedError", ""), events |-> looked]
        ELSE [result |-> parse(format, body, "Could not parse data from url"),
              events |-> looked \o <<Event("urlopen", url), Event("parse", url)>>]

_get_data_from_url(location, format, body) ==
    LET url    == get_parameter(location.parameters, "url")
        looked == <<Event("get_parameter", "url")>>
    IN  IF url = None
        THEN [result |-> Raise("ValueError", "Location has no url parameter"),
              events |-> looked]
        ELSE IF ~is_supported(format)
        THEN [result |-> Raise("NotImplementedError", ""), events |-> looked]
        ELSE [result |-> parse(format, body, "Could not parse data from url"),
              events |-> looked \o <<Event("urlopen", url), Event("parse", url)>>]

\* azure.storage.blob.ContainerClient(account_url, container_name, credential):
\* the constructor makes no request; it refuses an empty container name and a
\* url without a host with a ValueError of its own.
ContainerClient(account_url, container_name, secret) ==
    IF container_name = ""
    THEN [raised |-> Raise("ValueError", "Please specify a container name."),
          client |-> <<>>]
    ELSE IF account_url = ""
    THEN [raised |-> Raise("ValueError", "Invalid URL"), client |-> <<>>]
    ELSE [raised |-> NoResult,
          client |-> <<[account_url |-> account_url,
                        container_name |-> container_name,
                        credential |-> secret]>>]

\* _get_container: what it raised (NoResult when it returned), the client it
\* returned, the credential it settled on and the lookups it made.
_get_container(location) ==
    LET parameters     == location.parameters
        account_url    == get_parameter(parameters, "accountUrl")
        container_name == get_parameter(parameters, "containerName")
        sas_token      == get_parameter(parameters, "sasToken")
        expiry_time    == get_parameter(parameters, "expiryTime")
        account_key    == get_parameter(parameters, "accountKey")
        first          == <<Event("get_parameter", "accountUrl"),
                            Event("get_parameter", "containerName"),
                            Event("get_parameter", "sasToken")>>
        expiry         == <<Event("get_parameter", "expiryTime")>>
    IN  IF sas_token # None /\ expiry_time = None
        THEN [raised |-> Raise("TypeError", "strptime() argument 1 must be str, not None"),
              client |-> <<>>, credential |-> None, events |-> first \o expiry]
        ELSE IF sas_token # None /\ ~is_timestamp(expiry_time)
        THEN [raised |-> Raise("ValueError", "time data does not match format"),
              client |-> <<>>, credential |-> None, events |-> first \o expiry]
        ELSE
        LET fresh  == sas_token # None /\ strptime(expiry_time) >= datetime_now
            chosen == IF fresh THEN sas_token ELSE account_key
            looked == first
                      \o (IF sas_token # None THEN expiry ELSE <<>>)
                      \o (IF fresh THEN <<Event("get_parameter", "sasToken")>>
                          ELSE <<Event("get_parameter", "accountKey")>>)
        IN  IF None \in {account_url, container_name, chosen}
            THEN [raised |-> Raise("ValueError", "Parameters missing to create the container."),
                  client |-> <<>>, credential |-> chosen, events |-> looked]
            ELSE LET made == ContainerClient(account_url, container_name, chosen)
                 IN  [raised |-> made.raised, client |-> made.client,
                      credential |-> chosen, events |-> looked]

\* VersionService.get_version(asset_id, name): the contents of the version, or
\* not found.
VersionService_get_version(name) ==
    IF name \in DOMAIN versions THEN <<versions[name]>> ELSE <<>>

\* The comparison of line 133: the object is newer than the version recorded.
is_modified_swapped(blob_last_modified, content_last_modified) ==
    content_last_modified > blob_last_modified

is_modified(blob_last_modified, content_last_modified) ==
    blob_last_modified > content_last_modified

\* The objects of the container with the given name (none or one).
Named(name) == {i \in 1..Len(blobs) : blobs[i].name = name}

\* ------------------------------------------------------------------ actions
\* get_data raises or returns: the call is over.
Finish(outcome, done) ==
    /\ pc' = "done"
    /\ result' = outcome
    /\ events' = events \o done

\* get_data(version_name), up to its first request to the container.
get_data(v) ==
    /\ pc = "idle"
    /\ version_name' = v
    /\ LET branch == strategy(asset.location) IN
       IF branch = "missing"
       THEN /\ Finish(Raise("ValueError", "Asset location is not defined"), <<>>)
            /\ UNCHANGED <<credential, container, version, blob_list, data_frames>>
       ELSE IF branch = "unsupported"
       THEN /\ Finish(Raise("NotImplementedError", ""), <<>>)
            /\ UNCHANGED <<credential, container, version, blob_list, data_frames>>
       ELSE IF branch = "url"
       THEN LET got == _get_data_from_url(asset.location[1], asset.format, web)
            IN  /\ Finish(got.result, got.events)
                /\ UNCHANGED <<credential, container, version, blob_list, data_frames>>
       ELSE LET got == _get_container(asset.location[1])
            IN  /\ credential' = got.credential
                /\ container' = got.client
                /\ IF got.raised # NoResult
                   THEN Finish(got.raised, got.events)
                   ELSE /\ pc' = IF v = None THEN "list_blobs" ELSE "get_version"
                        /\ events' = events \o got.events
                        /\ UNCHANGED result
                /\ UNCHANGED <<version, blob_list, data_frames>>
    /\ UNCHANGED <<env, lookup, earlier, downloaded>>

\* blob_list = container.list_blobs()
list_blobs ==
    /\ pc = "list_blobs"
    /\ blob_list' = [i \in 1..Len(blobs) |-> blobs[i].name]
    /\ events' = Append(events, Event("list_blobs", ""))
    /\ pc' = "read"
    /\ UNCHANGED <<env, lookup, earlier, downloaded, version_name, credential, container, version,
                   data_frames, result>>

\* version = self.get_version(version=version_name); blob_list = []
get_version ==
    /\ pc = "get_version"
    /\ LET found == VersionService_get_version(version_name)
           done  == <<Event("get_version", version_name)>>
       IN  IF found = <<>>
           THEN /\ Finish(Raise("NotFound", version_name), done)
                /\ UNCHANGED version
           ELSE /\ version' = found
                /\ events' = events \o done
                /\ pc' = IF found[1] = <<>> THEN "read" ELSE "check"
                /\ UNCHANGED result
    /\ UNCHANGED <<env, lookup, earlier, downloaded, version_name, credential, container, blob_list,
                   data_frames>>

\* One turn of the loop over version.contents: the object is looked up and its
\* last_modified compared with the one recorded.
check_content ==
    /\ pc = "check"
    /\ LET content == version[1][Len(blob_list) + 1]
           found   == Named(content.name)
           done    == <<Event("get_blob_properties", content.name)>>
       IN  IF \/ found = {}
              \/ \E i \in found : is_modified(blobs[i].last_modified, content.last_modified)
           THEN /\ Finish(Raise("FileNotFoundError",
                                "The blob was not found, or it was modified."), done)
                /\ UNCHANGED blob_list
           ELSE /\ blob_list' = Append(blob_list, content.name)
                /\ events' = events \o done
                /\ pc' = IF Len(blob_list) + 1 = Len(version[1]) THEN "read" ELSE "check"
                /\ UNCHANGED result
    /\ UNCHANGED <<env, lookup, earlier, downloaded, version_name, credential, container, version,
                   data_frames>>

\* The format branch and one turn of its loop over blob_list: the object is
\* downloaded and parsed.
read_blob ==
    /\ pc = "read"
    /\ IF ~is_supported(asset.format)
       THEN /\ Finish(Raise("NotImplementedError", ""), <<>>)
            /\ UNCHANGED <<data_frames, downloaded>>
       ELSE IF Len(data_frames) = Len(blob_list)
       THEN /\ pc' = "concat"
            /\ UNCHANGED <<data_frames, downloaded, result, events>>
       ELSE LET name  == blob_list[Len(data_frames) + 1]
                found == Named(name)
                done  == <<Event("download_blob", name)>>
            IN  IF found = {}
                THEN /\ Finish(Raise("ResourceNotFoundError", name), done)
                     /\ UNCHANGED <<data_frames, downloaded>>
                ELSE LET blob   == blobs[CHOOSE i \in found : TRUE]
                         parsed == parse(asset.format, blob.body,
                                         "Could not parse the data from the blob container")
                     IN  /\ downloaded' = Append(downloaded, blob.last_modified)
                         /\ IF parsed.kind = "error"
                            THEN /\ Finish(parsed, done \o <<Event("parse", name)>>)
                                 /\ UNCHANGED data_frames
                            ELSE /\ data_frames' = Append(data_frames, parsed.rows)
                                 /\ events' = events \o done \o <<Event("parse", name)>>
                                 /\ UNCHANGED <<pc, result>>
    /\ UNCHANGED <<env, lookup, earlier, version_name, credential, container, version, blob_list>>

\* return pd.concat(data_frames, ignore_index=True)
concat_frames ==
    /\ pc = "concat"
    /\ Finish(concat(data_frames), <<>>)
    /\ UNCHANGED <<env, lookup, earlier, downloaded, version_name, credential, container, version,
                   blob_list, data_frames>>

\* The caller has the outcome; the asset can be asked again.
Return ==
    /\ pc = "done"
    /\ pc' = "idle"
    /\ version_name' = None
    /\ credential' = None
    /\ container' = <<>>
    /\ version' = <<>>
    /\ blob_list' = <<>>
    /\ data_frames' = <<>>
    /\ downloaded' = <<>>
    /\ result' = NoResult
    /\ events' = <<>>
    /\ earlier' = IF strategy(asset.location) = "url"
                  THEN [called |-> TRUE, version_name |-> version_name, result |-> result]
                  ELSE earlier
    /\ UNCHANGED <<env, lookup>>

Next ==
    \/ \E v \in VersionNames \cup {None} : get_data(v)
    \/ list_blobs
    \/ get_version
    \/ check_content
    \/ read_blob
    \/ concat_frames
    \/ Return

Spec == Init /\ [][Next]_vars

\* ------------------------------------------------------------------ another party
\* The container is shared: between any two requests of get_data another
\* party may overwrite an object, which gives it a later last_modified and a
\* body of its choice, or delete it.
overwrite_blob(i, last_modified, body) ==
    /\ i \in 1..Len(blobs)
    /\ last_modified > blobs[i].last_modified
    /\ blobs' = [blobs EXCEPT ![i] = Blob(blobs[i].name, last_modified, body)]
    /\ UNCHANGED <<asset, now, utc_offset, versions, web, frame, lookup, earlier>>

delete_blob(i) ==
    /\ i \in 1..Len(blobs)
    /\ blobs' = [k \in 1..(Len(blobs) - 1) |-> IF k < i THEN blobs[k] ELSE blobs[k + 1]]
    /\ UNCHANGED <<asset, now, utc_offset, versions, web, frame, lookup, earlier>>

InitConcurrent ==
    /\ asset = [location |-> <<KeyLocation>>, format |-> "csv"]
    /\ now = 0
    /\ utc_offset = 0
    /\ blobs \in Listings
    /\ versions \in [{"v1"} -> Manifests]
    /\ web = NoBody
    /\ IdleFrame
    /\ lookup = NoLookup
    /\ earlier = NoEarlier

NextConcurrent ==
    \/ Next
    \/ \E i \in 1..MaxBlobs, last_modified \in Stamps, body \in Bodies :
          overwrite_blob(i, last_modified, body)
    \/ \E i \in 1..MaxBlobs : delete_blob(i)

SpecConcurrent == InitConcurrent /\ [][NextConcurrent]_vars

\* ------------------------------------------------------------------ Location alone
ParameterKeys   == {"url", "accountKey"}
ParameterValues == {"x", "y"}

FreeParameters == SeqUpTo([key : ParameterKeys, value : ParameterValues], MaxParams)

\* A direct call of location.get_parameter(key).
lookup_parameter(key) ==
    /\ lookup' = [key |-> key, value |-> get_parameter(asset.location[1].parameters, key)]
    /\ UNCHANGED <<env, frame, earlier>>

InitLocation ==
    /\ asset \in {[location |-> <<Location("url", p)>>, format |-> "csv"] :
                    p \in FreeParameters}
    /\ now = 0
    /\ utc_offset = 0
    /\ blobs = OneBlob
    /\ versions = [v \in {"v1"} |-> OneManifest]
    /\ web = NoBody
    /\ IdleFrame
    /\ lookup = NoLookup
    /\ earlier = NoEarlier

NextLocation == \E key \in ParameterKeys \cup {"missingKey"} : lookup_parameter(key)

SpecLocation == InitLocation /\ [][NextLocation]_vars

\* ------------------------------------------------------------------ properties
Did(op) == \E i \in 1..Len(events) : events[i].op = op

\* The requests get_data can make: to the version service, the container, the url.
Requests == {"get_version", "list_blobs", "get_blob_properties", "download_blob", "urlopen"}
NoRequest == \A i \in 1..Len(events) : events[i].op \notin Requests

Calling == pc # "idle"
OnUrl       == asset.location # <<>> /\ asset.location[1].type = "url"
OnContainer == asset.location # <<>> /\ asset.location[1].type = "azureblob"
ParameterOf(key) == get_parameter(asset.location[1].parameters, key)

\* The entry's object is in the container and not newer than the entry records.
IsCurrent(content) ==
    \E i \in 1..Len(blobs) :
        /\ blobs[i].name = content.name
        /\ blobs[i].last_modified <= content.last_modified

BodyOf(name) == blobs[CHOOSE i \in 1..Len(blobs) : blobs[i].name = name].body

\* C1: in a versioned fetch whose version has an entry, at any position, whose
\* object is missing or newer than the entry's watermark, nothing is ever
\* downloaded or parsed, no table is returned and the call ends with
\* FileNotFoundError.
C1_StaleVersionFails ==
    (version # <<>> /\ \E k \in 1..Len(version[1]) : ~IsCurrent(version[1][k])) =>
        /\ ~Did("download_blob")
        /\ ~Did("parse")
        /\ data_frames = <<>>
        /\ result.kind # "table"
        /\ pc \in {"check", "done"}
        /\ pc = "done" => result.error = "FileNotFoundError"

\* C1 witness: a version of two entries, the first current and the second not,
\* has ended in FileNotFoundError.
C1_Witness ==
    /\ pc = "done"
    /\ version # <<>>
    /\ Len(version[1]) >= 2
    /\ IsCurrent(version[1][1])
    /\ ~IsCurrent(version[1][2])
    /\ result.error = "FileNotFoundError"

\* C2 (as claimed): a versioned fetch with a supported format and a created
\* client, all of whose entries are current (and whose objects parse), returns
\* the entries' rows in the order of the entries, for every number of entries,
\* none included.
C2_VersionedFetchConcatenates ==
    (/\ pc = "done"
     /\ OnContainer
     /\ version_name # None
     /\ is_supported(asset.format)
     /\ container # <<>>
     /\ version # <<>>
     /\ \A k \in 1..Len(version[1]) :
            IsCurrent(version[1][k]) /\ BodyOf(version[1][k].name).well_formed)
    => result = Table(Flatten([k \in 1..Len(version[1]) |-> BodyOf(version[1][k].name).rows]))

\* C3 (as claimed): an unversioned fetch with a supported format and a created
\* client returns the rows of every listed object in listing order (so as many
\* rows as the objects have together), for every listing, the empty one included.
C3_UnversionedFetchConcatenates ==
    (/\ pc = "done"
     /\ OnContainer
     /\ version_name = None
     /\ is_supported(asset.format)
     /\ container # <<>>
     /\ \A i \in 1..Len(blobs) : blobs[i].body.well_formed)
    => result = Table(Flatten([i \in 1..Len(blobs) |-> blobs[i].body.rows]))

\* The instant a well-formed expiryTime denotes, read as UTC.
ExpiryInstant == CHOOSE t \in Times : TimeString(t) = ParameterOf("expiryTime")

\* C4 (as claimed): with sasToken and a well-formed expiryTime, the credential
\* is the sasToken exactly when the expiry, as a UTC instant, is at or after
\* the current instant; past expiry and with an accountKey it is the accountKey.
C4_SasTokenWhileNotExpired ==
    (/\ Calling
     /\ OnContainer
     /\ ParameterOf("sasToken") # None
     /\ is_timestamp(ParameterOf("expiryTime")))
    => /\ ExpiryInstant >= now => credential = ParameterOf("sasToken")
       /\ ExpiryInstant < now /\ ParameterOf("accountKey") # None =>
              credential = ParameterOf("accountKey")
       /\ (ExpiryInstant < now /\ ParameterOf("sasToken") # ParameterOf("accountKey")) =>
              credential # ParameterOf("sasToken")

\* C5 (as claimed): without sasToken or without expiryTime the credential is
\* the accountKey, and with accountUrl, containerName and accountKey the
\* resolution succeeds.
C5_FallsBackToAccountKey ==
    (/\ Calling
     /\ OnContainer
     /\ ParameterOf("sasToken") = None \/ ParameterOf("expiryTime") = None)
    => /\ credential = ParameterOf("accountKey")
       /\ (/\ ParameterOf("accountUrl") \notin {None, ""}
           /\ ParameterOf("containerName") \notin {None, ""}
           /\ ParameterOf("accountKey") # None)
          => container # <<>>

\* A sasToken that is there, not empty, and not expired at the current instant.
UsableSasToken ==
    /\ ParameterOf("sasToken") \notin {None, ""}
    /\ ParameterOf("expiryTime") # None
    /\ is_timestamp(ParameterOf("expiryTime"))
    /\ ExpiryInstant >= now

\* C6 (as claimed): without accountUrl, containerName or a non-empty
\* credential the call fails with ValueError and has made no request.
C6_MissingConfigurationBeforeRequests ==
    (/\ Calling
     /\ OnContainer
     /\ \/ ParameterOf("accountUrl") \in {None, ""}
        \/ ParameterOf("containerName") \in {None, ""}
        \/ ~UsableSasToken /\ ParameterOf("accountKey") \in {None, ""})
    => /\ pc = "done"
       /\ result.error = "ValueError"
       /\ NoRequest

\* C7: with no location get_data fails with ValueError('Asset location is not
\* defined'), with a type other than 'url' and 'azureblob' with
\* NotImplementedError, and in both cases it has looked up no parameter,
\* resolved no credential and made no request.
C7_OnlyKnownLocationTypes ==
    (Calling /\ ~OnUrl /\ ~OnContainer) =>
        /\ pc = "done"
        /\ result = IF asset.location = <<>>
                    THEN Raise("ValueError", "Asset location is not defined")
                    ELSE Raise("NotImplementedError", "")
        /\ events = <<>>
        /\ credential = None
        /\ container = <<>>

\* C7 witness: a call on a location of another type has ended.
C7_Witness ==
    /\ pc = "done"
    /\ asset.location # <<>>
    /\ asset.location[1].type = "ftp"
    /\ result.error = "NotImplementedError"

\* C8: on a 'url' location a finished get_data has the outcome the asset's
\* previous get_data had, whatever the two version names; it never calls the
\* version service; without a 'url' parameter it fails with ValueError and
\* fetches nothing.
C8_UrlIgnoresVersion ==
    (pc = "done" /\ OnUrl) =>
        /\ earlier.called => result = earlier.result
        /\ ~Did("get_version")
        /\ ParameterOf("url") = None => result.error = "ValueError" /\ NoRequest

\* C8 witness: two calls with different version names, the second returning a table.
C8_Witness ==
    /\ pc = "done"
    /\ OnUrl
    /\ earlier.called
    /\ earlier.version_name # version_name
    /\ version_name # None
    /\ result.kind = "table"

\* The least element of a non-empty set of numbers.
Least(S) == CHOOSE i \in S : \A j \in S : i <= j

\* C9: get_parameter returns the value of the first pair with the key, in
\* sequence order, and None when no pair has the key.
C9_FirstMatchOrNone ==
    lookup.key # None =>
        LET parameters == asset.location[1].parameters
            matches    == {i \in 1..Len(parameters) : parameters[i].key = lookup.key}
        IN  lookup.value = IF matches = {} THEN None ELSE parameters[Least(matches)].value

\* C9 witness: the key looked up occurs twice with different values.
C9_Witness ==
    /\ lookup.key # None
    /\ LET parameters == asset.location[1].parameters
       IN  \E i, j \in 1..Len(parameters) :
              /\ i < j
              /\ parameters[i].key = lookup.key
              /\ parameters[j].key = lookup.key
              /\ parameters[i].value # parameters[j].value
              /\ lookup.value = parameters[i].value

\* C10 (as claimed): with a format other than 'csv' and 'json', get_data on a
\* 'url' or 'azureblob' location ends with NotImplementedError.
C10_UnsupportedFormatAlways ==
    (pc = "done" /\ (OnUrl \/ OnContainer) /\ asset.format \notin {"csv", "json"})
    => result = Raise("NotImplementedError", "")

\* The call got as far as the format branch: the url is there, or the client
\* was created and, for a version, the version was found with every entry current.
AtFormatBranch ==
    \/ OnUrl /\ ParameterOf("url") # None
    \/ /\ OnContainer
       /\ container # <<>>
       /\ \/ version_name = None
          \/ version # <<>> /\ \A k \in 1..Len(version[1]) : IsCurrent(version[1][k])

\* C10 (amended): with a format other than 'csv' and 'json', get_data on a
\* 'url' or 'azureblob' location never returns a table and never downloads or
\* parses anything, and when no earlier step failed it ends with
\* NotImplementedError, which is not the ValueError of a parse failure.
C10_UnsupportedFormat ==
    ((OnUrl \/ OnContainer) /\ asset.format \notin {"csv", "json"}) =>
        /\ result.kind # "table"
        /\ ~Did("download_blob") /\ ~Did("urlopen") /\ ~Did("parse")
        /\ (pc = "done" /\ AtFormatBranch) =>
              /\ result = Raise("NotImplementedError", "")
              /\ result.error # "ValueError"

\* C10 witness: an unversioned call on a container that lists objects has
\* ended in NotImplementedError.
C10_Witness ==
    /\ pc = "done"
    /\ OnContainer
    /\ asset.format = "xml"
    /\ blob_list # <<>>
    /\ result.error = "NotImplementedError"

\* C11 (as claimed): with another party writing to the container during the
\* call, a versioned get_data that returns a table has downloaded, for every
\* entry of the version, an object whose last_modified at the download was
\* not later than the entry's watermark.
C11_DownloadedAsChecked ==
    (pc = "done" /\ OnContainer /\ version_name # None /\ result.kind = "table") =>
        /\ Len(downloaded) = Len(version[1])
        /\ \A k \in 1..Len(version[1]) : downloaded[k] <= version[1][k].last_modified

====
